---- MODULE Spec2Model ----
(***************************************************************************)
(* Model of src/plugins/xmltool/stream.c of libelektra: the XML writers    *)
(* keyToStream, keyToStreamBasename and ksToStream, and the debug writers  *)
(* keyOutput and ksOutput.                                                 *)
(*                                                                         *)
(* A C string is a sequence of one-character strings; the stream is the    *)
(* sequence of bytes written to the FILE so far.  Every format string of   *)
(* the source is a Fmt... definition holding its bytes, so that a returned *)
(* byte count, a newline or a tag is something the model computes.         *)
(***************************************************************************)
EXTENDS Integers, Sequences, FiniteSets, TLC

VARIABLES
    op,            \* the function that is called
    pc,            \* the position inside the running function
    ks,            \* the caller's keyset (a sequence of keys, sorted by name)
    options,       \* the KDBStream option bits that are set
    arg,           \* the arguments of a single-key call
    cks,           \* the snapshot made by ksDup, or NULL
    stream,        \* the bytes written to the FILE
    written,       \* the local variable 'written' of ksToStream
    it,            \* the cursor of the loop over cks
    commonParent,  \* the buffer commonParent of ksToStream
    calls,         \* log: one record per per-key call made so far
    log,           \* log: the events of the running keyset-level call, in order
    mem,           \* what the last keyToStreamBasename call read of its strings
    ret            \* the value returned; 0 while the call runs

vars ==
    <<op, pc, ks, options, arg, cks, stream, written, it, commonParent, calls,
      log, mem, ret>>

-----------------------------------------------------------------------------
(* Bounds of the model *)

\* the largest number of keys of a keyset
MaxKeys == 2

\* the largest parentSize argument given to keyToStreamBasename
MaxParentSize == 3

-----------------------------------------------------------------------------
(* Bytes and strings *)

\* the null pointer (no string, no keyset)
NULL == <<"NULL">>

\* the terminating byte of a C string
NUL == "NUL"

\* the cut size of a value attribute, stream.c:195
AttrCutSize == 16

RECURSIVE Rep(_, _)
Rep(c, n) == IF n = 0 THEN <<>> ELSE <<c>> \o Rep(c, n - 1)

KDB_PATH_SEPARATOR == "/"

\* the bytes a string and what follows it occupy: the string, its terminator
\* and the pad bytes that happen to lie behind it
Mem(s, pad) == s \o <<NUL>> \o pad

\* what may lie in memory behind the terminator of a key's name, and behind
\* the terminator of parent (behind these bytes the model reads zero)
KeyPads == {<<>>, <<KDB_PATH_SEPARATOR>>, <<"x">>, <<KDB_PATH_SEPARATOR, "x">>}

ParentPads == {<<>>, <<KDB_PATH_SEPARATOR>>, <<"x">>}

\* *(m + off); behind the pad the model's memory reads as zero
MemAt(m, off) == IF off + 1 <= Len(m) THEN m[off + 1] ELSE NUL

\* the offset of the first NUL at or after off
RECURSIVE StrEnd(_, _)
StrEnd(m, off) == IF MemAt(m, off) = NUL THEN off ELSE StrEnd(m, off + 1)

\* what printf's %s prints for the pointer m + off: the bytes up to the first NUL
CString(m, off) == [i \in 1 .. (StrEnd(m, off) - off) |-> MemAt(m, off + i - 1)]

elektraStrLen(s) == Len(s) + 1

\* the number of leading bytes, at most n, on which m1 and m2 agree
RECURSIVE FirstDiff(_, _, _, _)
FirstDiff(m1, m2, n, i) ==
    IF i >= n \/ MemAt(m1, i) # MemAt(m2, i) THEN i ELSE FirstDiff(m1, m2, n, i + 1)

\* memcmp: 0 when the first n bytes agree (the sign of a difference is not used)
memcmp(m1, m2, n) == IF FirstDiff(m1, m2, n, 0) = n THEN 0 ELSE 1

Digit(d) == <<"0", "1", "2", "3", "4", "5", "6", "7", "8", "9">>[d + 1]

\* what printf's %d prints for n >= 0
RECURSIVE Dec(_)
Dec(n) == IF n < 10 THEN <<Digit(n)>> ELSE Dec(n \div 10) \o <<Digit(n % 10)>>

-----------------------------------------------------------------------------
(* The format strings of stream.c *)

\* stream.c:168, text before %s
FmtKeyBasenameOpen ==
    <<"<", "k", "e", "y", " ", "b", "a", "s", "e", "n", "a", "m", "e", "=",
      "\"">>

\* stream.c:178,181, text before %s
FmtKeyNameOpen ==
    <<"<", "k", "e", "y", " ", "n", "a", "m", "e", "=", "\"">>

\* closing quote of an attribute format
FmtQuote ==
    <<"\"">>

\* stream.c:186,214,261
FmtSelfClose ==
    <<"/", ">">>

\* stream.c:187,262,283
FmtNlNl ==
    <<"\n", "\n">>

\* stream.c:204
FmtSpace ==
    <<" ">>

\* stream.c:206
FmtNlTab ==
    <<"\n", "\t">>

\* stream.c:208, text before %s
FmtValueAttrOpen ==
    <<"v", "a", "l", "u", "e", "=", "\"">>

\* stream.c:211,393,404
FmtGtNl ==
    <<">", "\n">>

\* stream.c:215,257,271,278
FmtNl ==
    <<"\n">>

\* stream.c:222,256
FmtGt ==
    <<">">>

\* stream.c:223
FmtValueIndent ==
    <<"\n", "\n", " ", " ", " ", " ", " ">>

\* stream.c:225
FmtValueOpen ==
    <<"<", "v", "a", "l", "u", "e", ">">>

\* stream.c:228
FmtCdataOpen ==
    <<"<", "!", "[", "C", "D", "A", "T", "A", "[">>

\* stream.c:232
FmtCdataClose ==
    <<"]", "]", ">">>

\* stream.c:249
FmtValueClose ==
    <<"<", "/", "v", "a", "l", "u", "e", ">">>

\* stream.c:272
FmtCommentIndent ==
    <<" ", " ", " ", " ", " ">>

\* stream.c:277, text before %s
FmtCommentOpen ==
    <<"<", "c", "o", "m", "m", "e", "n", "t", ">", "<", "!", "[", "C", "D",
      "A", "T", "A", "[">>

\* stream.c:277, text after %s
FmtCommentClose ==
    <<"]", "]", ">", "<", "/", "c", "o", "m", "m", "e", "n", "t", ">">>

\* stream.c:281
FmtKeyClose ==
    <<"<", "/", "k", "e", "y", ">">>

\* stream.c:358, text before %s
FmtXmlDeclOpen ==
    <<"<", "?", "x", "m", "l", " ", "v", "e", "r", "s", "i", "o", "n", "=",
      "\"", "1", ".", "0", "\"", " ", "e", "n", "c", "o", "d", "i", "n", "g",
      "=", "\"">>

\* stream.c:358, the %s argument
FmtEncoding ==
    <<"U", "T", "F", "-", "8">>

\* stream.c:358, text after %s
FmtXmlDeclClose ==
    <<"\"", "?", ">">>

\* stream.c:360, text before %d
FmtGeneratedOpen ==
    <<"\n", "<", "!", "-", "-", " ", "G", "e", "n", "e", "r", "a", "t", "e",
      "d", " ", "b", "y", " ", "E", "l", "e", "k", "t", "r", "a", " ", "A",
      "P", "I", ".", " ", "T", "o", "t", "a", "l", " ", "o", "f", " ">>

\* stream.c:360, text after %d
FmtGeneratedClose ==
    <<" ", "k", "e", "y", "s", ".", " ", "-", "-", ">", "\n">>

\* stream.c:363-365
FmtKeysetSchema ==
    <<"<", "k", "e", "y", "s", "e", "t", " ", "x", "m", "l", "n", "s", "=",
      "\"", "h", "t", "t", "p", "s", ":", "/", "/", "w", "w", "w", ".", "l",
      "i", "b", "e", "l", "e", "k", "t", "r", "a", ".", "o", "r", "g", "\"",
      "\n", "\t", "x", "m", "l", "n", "s", ":", "x", "s", "i", "=", "\"",
      "h", "t", "t", "p", ":", "/", "/", "w", "w", "w", ".", "w", "3", ".",
      "o", "r", "g", "/", "2", "0", "0", "1", "/", "X", "M", "L", "S", "c",
      "h", "e", "m", "a", "-", "i", "n", "s", "t", "a", "n", "c", "e", "\"",
      "\n", "\t", "x", "s", "i", ":", "s", "c", "h", "e", "m", "a", "L", "o",
      "c", "a", "t", "i", "o", "n", "=", "\"", "h", "t", "t", "p", "s", ":",
      "/", "/", "w", "w", "w", ".", "l", "i", "b", "e", "l", "e", "k", "t",
      "r", "a", ".", "o", "r", "g", " ", "e", "l", "e", "k", "t", "r", "a",
      ".", "x", "s", "d", "\"", "\n">>

\* stream.c:368-370
FmtKeysetSchemaCondensed ==
    <<"<", "k", "e", "y", "s", "e", "t", " ", "x", "m", "l", "n", "s", "=",
      "\"", "h", "t", "t", "p", "s", ":", "/", "/", "w", "w", "w", ".", "l",
      "i", "b", "e", "l", "e", "k", "t", "r", "a", ".", "o", "r", "g", "\"",
      " ", "x", "m", "l", "n", "s", ":", "x", "s", "i", "=", "\"", "h", "t",
      "t", "p", ":", "/", "/", "w", "w", "w", ".", "w", "3", ".", "o", "r",
      "g", "/", "2", "0", "0", "1", "/", "X", "M", "L", "S", "c", "h", "e",
      "m", "a", "-", "i", "n", "s", "t", "a", "n", "c", "e", "\"", " ", "x",
      "s", "i", ":", "s", "c", "h", "e", "m", "a", "L", "o", "c", "a", "t",
      "i", "o", "n", "=", "\"", "h", "t", "t", "p", "s", ":", "/", "/", "w",
      "w", "w", ".", "l", "i", "b", "e", "l", "e", "k", "t", "r", "a", ".",
      "o", "r", "g", " ", "e", "l", "e", "k", "t", "r", "a", ".", "x", "s",
      "d", "\"">>

\* stream.c:373
FmtKeysetOpen ==
    <<"<", "k", "e", "y", "s", "e", "t">>

\* stream.c:383, text before %s
FmtParentOpen ==
    <<" ", " ", " ", " ", " ", " ", " ", " ", "p", "a", "r", "e", "n", "t",
      "=", "\"">>

\* stream.c:383, text after %s
FmtParentClose ==
    <<"\"", ">", "\n">>

\* stream.c:413
FmtKeysetClose ==
    <<"<", "/", "k", "e", "y", "s", "e", "t", ">", "\n">>

\* stream.c:444
FmtNameOpen ==
    <<"N", "a", "m", "e", "[">>

\* stream.c:464
FmtBinaryOpen ==
    <<"B", "i", "n", "a", "r", "y", "[">>

\* stream.c:469
FmtStringOpen ==
    <<"S", "t", "r", "i", "n", "g", "[">>

\* stream.c:482
FmtCommentLineOpen ==
    <<"C", "o", "m", "m", "e", "n", "t", "[">>

\* stream.c:444,464,469,482, text between %d and %s
FmtSizeClose ==
    <<"]", ":", " ">>

\* stream.c:444,464,469,482,488
FmtFieldEnd ==
    <<" ", ":", " ">>

\* stream.c:493
FmtFlags ==
    <<"F", "l", "a", "g", "s", ":", " ">>

\* stream.c:494
FmtFlagB ==
    <<"b">>

\* stream.c:495,496
FmtFlagS ==
    <<"s">>

\* stream.c:535, text before %d
FmtOutputHeader ==
    <<"O", "u", "t", "p", "u", "t", " ", "k", "e", "y", "s", "e", "t", " ",
      "o", "f", " ", "s", "i", "z", "e", " ">>

\* stream.c:541, text before %d
FmtIndexOpen ==
    <<"[">>

\* stream.c:541, text after %d
FmtIndexClose ==
    <<"]", " ">>
-----------------------------------------------------------------------------
(* Keys *)

\* the option bits of KDBStream that stream.c tests
KDB_O_CONDENSED == "KDB_O_CONDENSED"
KDB_O_FULLNAME == "KDB_O_FULLNAME"
KDB_O_HEADER == "KDB_O_HEADER"
KDB_O_HIER == "KDB_O_HIER"
KDB_O_XMLHEADERS == "KDB_O_XMLHEADERS"
KDB_O_SHOWMETA == "KDB_O_SHOWMETA"
KDB_O_SHOWFLAGS == "KDB_O_SHOWFLAGS"
KDB_O_SHOWINDICES == "KDB_O_SHOWINDICES"
KEY_VALUE == "KEY_VALUE"
KEY_META == "KEY_META"

\* a value: none, a string (stored with its terminator) or binary bytes
NoValue == [data |-> NULL, binary |-> FALSE]

StringValue(s) == [data |-> s \o <<NUL>>, binary |-> FALSE]

BinaryValue(bytes) == [data |-> bytes, binary |-> TRUE]

\* a Key: key is its name, data its value (NULL when it has none), dataSize
\* the number of bytes of data (the terminator of a string included),
\* comment its comment (NULL when it has none)
Key(name, value, comment, sync) ==
    [key |-> name, data |-> value.data,
     dataSize |-> IF value.data = NULL THEN 0 ELSE Len(value.data),
     binary |-> value.binary, comment |-> comment, needSync |-> sync]

keyIsBinary(key) == key.binary

keyIsString(key) == ~key.binary

keyNeedSync(key) == key.needSync

keyComment(key) == key.comment

\* keyGetName copies the name of the key into the buffer
keyGetName(key) == key.key

keyGetNameSize(key) == Len(key.key) + 1

keyGetValueSize(key) == key.dataSize

keyGetCommentSize(key) == IF key.comment = NULL THEN 1 ELSE Len(key.comment) + 1

\* strchr (s, c) != NULL for the C string at the start of m
strchr(m, c) == \E i \in 0 .. (StrEnd(m, 0) - 1) : MemAt(m, i) = c

-----------------------------------------------------------------------------
(* keyToStreamBasename, stream.c:150-286 *)

\* written += fprintf (...) and written += fwrite (...) on a stream that
\* accepts every write: the bytes are appended and their number is added
Fprintf(st, text) == [st EXCEPT !.out = @ \o text, !.written = @ + Len(text)]

\* the separator loop left out: skip stays where the comparison ended
SkipSeparatorsNone(kmem, skip) == skip

\* the separator loop, stream.c:164-165
RECURSIVE SkipSeparators(_, _)
SkipSeparators(kmem, skip) ==
    IF MemAt(kmem, skip) = KDB_PATH_SEPARATOR
    THEN SkipSeparators(kmem, skip + 1)
    ELSE skip

\* no string was compared: parent is NULL
NoMem == [compared |-> FALSE, matched |-> FALSE, cmpLen |-> 0, keyRead |-> -1,
          parentRead |-> -1, skip |-> 0]

\* stream.c:155-170: the relative basename.  kpad and ppad are the bytes that
\* lie behind the terminators of the key's name and of parent.  In the result,
\* keyRead and parentRead are the highest offsets the code has read of the two
\* strings for certain (memcmp up to the first difference; it may read all
\* cmpLen bytes), matched says that memcmp returned 0, skip is the final value
\* of skip
BasenamePart(key, parent, parentSize, kpad, ppad) ==
    LET st0 == [out |-> <<>>, written |-> 0]
    IN  IF parent = NULL
        THEN [st |-> st0, mem |-> NoMem]
        ELSE LET kmem == Mem(key.key, kpad)
                 pmem == Mem(parent, ppad)
                 skip0 == IF parentSize # 0 THEN parentSize
                          ELSE elektraStrLen(parent) - 1
                 found == memcmp(pmem, kmem, skip0)
                 cmpRead == IF skip0 = 0 THEN -1
                            ELSE IF found = 0 THEN skip0 - 1
                            ELSE FirstDiff(pmem, kmem, skip0, 0)
                 skip == SkipSeparators(kmem, skip0)
             IN  IF found = 0
                 THEN [st |-> IF MemAt(kmem, skip) # NUL
                              THEN Fprintf(st0, FmtKeyBasenameOpen
                                                \o CString(kmem, skip) \o FmtQuote)
                              ELSE st0,
                       mem |-> [compared |-> TRUE, matched |-> TRUE, cmpLen |-> skip0,
                                keyRead |-> StrEnd(kmem, skip),
                                parentRead |-> IF parentSize # 0 THEN cmpRead
                                               ELSE Len(parent),
                                skip |-> skip]]
                 ELSE [st |-> st0,
                       mem |-> [compared |-> TRUE, matched |-> FALSE, cmpLen |-> skip0,
                                keyRead |-> cmpRead,
                                parentRead |-> IF parentSize # 0 THEN cmpRead
                                               ELSE Len(parent),
                                skip |-> skip0]]

\* stream.c:172-182: the full name, when no basename was written
NamePart(st, key, opts) ==
    IF st.written = 0
    THEN IF KDB_O_FULLNAME \in opts
         THEN Fprintf(st, FmtKeyNameOpen \o keyGetName(key) \o FmtQuote)
         ELSE Fprintf(st, FmtKeyNameOpen \o key.key \o FmtQuote)
    ELSE st

\* stream.c:186-189 and 261-264: the element is closed at once
EmptyElement(st, opts) ==
    LET s1 == Fprintf(st, FmtSelfClose)
    IN  IF KDB_O_CONDENSED \notin opts THEN Fprintf(s1, FmtNlNl) ELSE s1

\* the cut taken one byte too early: dataSize < 16
IsAttrValueStrict(key) ==
    /\ key.dataSize < AttrCutSize
    /\ keyIsString(key)
    /\ ~strchr(key.data, "\n")

\* stream.c:195-196: the value is written as an attribute
IsAttrValue(key) ==
    /\ key.dataSize <= AttrCutSize
    /\ keyIsString(key)
    /\ ~strchr(key.data, "\n")

\* stream.c:203-218: the value attribute; returned says that the function
\* returns here
ValueAttribute(st, key, opts) ==
    LET s1 == IF KDB_O_CONDENSED \in opts
              THEN Fprintf(st, FmtSpace)
              ELSE Fprintf(st, FmtNlTab)
        s2 == Fprintf(s1, FmtValueAttrOpen \o CString(key.data, 0) \o FmtQuote)
    IN  IF keyComment(key) # NULL
        THEN [st |-> Fprintf(s2, FmtGtNl), returned |-> FALSE]
        ELSE LET s3 == Fprintf(s2, FmtSelfClose)
             IN  [st |-> IF KDB_O_CONDENSED \notin opts
                         THEN Fprintf(s3, FmtNl)
                         ELSE s3,
                  returned |-> TRUE]

\* the <value> node with its closing tag forgotten
ValueNodeUnclosed(st, key, opts) ==
    LET s1 == Fprintf(st, FmtGt)
        s2 == IF KDB_O_CONDENSED \notin opts
              THEN Fprintf(s1, FmtValueIndent)
              ELSE s1
        s3 == Fprintf(s2, FmtValueOpen)
        s4 == IF keyIsString(key)
              THEN Fprintf(Fprintf(Fprintf(s3, FmtCdataOpen),
                                   SubSeq(key.data, 1, key.dataSize - 1)),
                           FmtCdataClose)
              ELSE s3
    IN  [st |-> s4, returned |-> FALSE]

\* the <value> node with the result of fwrite not added to 'written'
ValueNodeUncounted(st, key, opts) ==
    LET s1 == Fprintf(st, FmtGt)
        s2 == IF KDB_O_CONDENSED \notin opts
              THEN Fprintf(s1, FmtValueIndent)
              ELSE s1
        s3 == Fprintf(s2, FmtValueOpen)
        s4 == IF keyIsString(key)
              THEN LET c == Fprintf(s3, FmtCdataOpen)
                       w == [c EXCEPT !.out = @ \o SubSeq(key.data, 1, key.dataSize - 1)]
                   IN  Fprintf(w, FmtCdataClose)
              ELSE s3
    IN  [st |-> Fprintf(s4, FmtValueClose), returned |-> FALSE]

\* stream.c:222-249: the <value> node; nothing is written for a binary value
ValueNode(st, key, opts) ==
    LET s1 == Fprintf(st, FmtGt)
        s2 == IF KDB_O_CONDENSED \notin opts
              THEN Fprintf(s1, FmtValueIndent)
              ELSE s1
        s3 == Fprintf(s2, FmtValueOpen)
        s4 == IF keyIsString(key)
              THEN Fprintf(Fprintf(Fprintf(s3, FmtCdataOpen),
                                   SubSeq(key.data, 1, key.dataSize - 1)),
                           FmtCdataClose)
              ELSE s3
    IN  [st |-> Fprintf(s4, FmtValueClose), returned |-> FALSE]

\* stream.c:254-265: the key has no data
NoDataPart(st, key, opts) ==
    IF keyComment(key) # NULL
    THEN LET s1 == Fprintf(st, FmtGt)
         IN  [st |-> IF KDB_O_CONDENSED \notin opts
                     THEN Fprintf(s1, FmtNl)
                     ELSE s1,
              returned |-> FALSE]
    ELSE [st |-> EmptyElement(st, opts), returned |-> TRUE]

\* stream.c:184-267
ValuePart(st, key, opts) ==
    IF key.data = NULL /\ keyComment(key) = NULL
    THEN [st |-> EmptyElement(st, opts), returned |-> TRUE]
    ELSE IF key.data # NULL
         THEN IF IsAttrValue(key)
              THEN ValueAttribute(st, key, opts)
              ELSE ValueNode(st, key, opts)
         ELSE NoDataPart(st, key, opts)

\* stream.c:269-285: the comment and the end of the element
CommentPart(st, key, opts) ==
    LET s1 == IF KDB_O_CONDENSED \notin opts
              THEN LET n == Fprintf(st, FmtNl)
                   IN  IF keyComment(key) # NULL
                       THEN Fprintf(n, FmtCommentIndent)
                       ELSE n
              ELSE st
        s2 == IF keyComment(key) # NULL
              THEN LET c == Fprintf(s1, FmtCommentOpen \o keyComment(key)
                                        \o FmtCommentClose)
                   IN  IF KDB_O_CONDENSED \notin opts
                       THEN Fprintf(c, FmtNl)
                       ELSE c
              ELSE s1
        s3 == Fprintf(s2, FmtKeyClose)
    IN  IF KDB_O_CONDENSED \notin opts THEN Fprintf(s3, FmtNlNl) ELSE s3

\* the whole function: out is what it appends to the stream, written is what
\* it returns, mem is what it read of the key's name and of parent
keyToStreamBasename(key, parent, parentSize, opts, kpad, ppad) ==
    LET b == BasenamePart(key, parent, parentSize, kpad, ppad)
        n == NamePart(b.st, key, opts)
        v == ValuePart(n, key, opts)
        e == IF v.returned THEN v.st ELSE CommentPart(v.st, key, opts)
    IN  [out |-> e.out, written |-> e.written, mem |-> b.mem]

\* stream.c:96-99
keyToStream(key, opts) == keyToStreamBasename(key, NULL, 0, opts, <<>>, <<>>)

-----------------------------------------------------------------------------
(* ksToStream, stream.c:350-416 *)

ksDup(keyset) == keyset

ksGetSize(keyset) == Len(keyset)

ksAtCursor(keyset, cursor) == keyset[cursor + 1]

\* p is a leading run of whole path segments of name
IsPathPrefix(p, name) ==
    /\ Len(p) <= Len(name)
    /\ SubSeq(name, 1, Len(p)) = p
    /\ Len(p) < Len(name) => name[Len(p) + 1] = KDB_PATH_SEPARATOR

\* ksGetCommonParentName: the longest name that is a path prefix of, or equal
\* to, the name of every key; empty when there is none or the keyset is empty
ksGetCommonParentName(keyset) ==
    IF ksGetSize(keyset) = 0
    THEN <<>>
    ELSE LET first == keyset[1].key
             common == {n \in 1 .. Len(first) :
                           /\ first[n] # KDB_PATH_SEPARATOR
                           /\ \A i \in 1 .. Len(keyset) :
                                  IsPathPrefix(SubSeq(first, 1, n), keyset[i].key)}
         IN  IF common = {}
             THEN <<>>
             ELSE SubSeq(first, 1, CHOOSE n \in common : \A m \in common : m <= n)

\* stream.c:356-373: the prolog and the start of the root element
RootOpen(st, opts, size) ==
    IF KDB_O_HEADER \in opts
    THEN LET s1 == Fprintf(st, FmtXmlDeclOpen \o FmtEncoding \o FmtXmlDeclClose)
             s2 == IF KDB_O_CONDENSED \notin opts
                   THEN Fprintf(s1, FmtGeneratedOpen \o Dec(size) \o FmtGeneratedClose)
                   ELSE s1
         IN  IF KDB_O_CONDENSED \notin opts
             THEN Fprintf(s2, FmtKeysetSchema)
             ELSE Fprintf(s2, FmtKeysetSchemaCondensed)
    ELSE Fprintf(st, FmtKeysetOpen)

\* the stream and 'written' of the running ksToStream, as a record
Cur == [out |-> stream, written |-> written]

Event(e, at) == [ev |-> e, at |-> at]

\* stream.c:352-354
KsToStreamDup ==
    /\ op = "ksToStream" /\ pc = "call"
    /\ cks' = ksDup(ks)
    /\ written' = 0
    /\ log' = Append(log, Event("ksDup", 0))
    /\ pc' = "header"
    /\ UNCHANGED <<op, ks, options, arg, stream, it, commonParent, calls, mem, ret>>

\* stream.c:356-373
KsToStreamHeader ==
    /\ op = "ksToStream" /\ pc = "header"
    /\ LET s == RootOpen(Cur, options, ksGetSize(cks))
       IN  stream' = s.out /\ written' = s.written
    /\ pc' = "hier"
    /\ UNCHANGED <<op, ks, options, arg, cks, it, commonParent, calls, log, mem, ret>>

\* stream.c:375-383: KDB_O_HIER and a common parent
KsToStreamParent ==
    /\ op = "ksToStream" /\ pc = "hier"
    /\ KDB_O_HIER \in options
    /\ LET cp == ksGetCommonParentName(cks)
       IN  /\ cp # <<>>
           /\ commonParent' = cp
           /\ LET s == Fprintf(Cur, FmtParentOpen \o cp \o FmtParentClose)
              IN  stream' = s.out /\ written' = s.written
    /\ it' = 0
    /\ log' = Append(log, Event("root", 0))
    /\ pc' = "loopBasename"
    /\ UNCHANGED <<op, ks, options, arg, cks, calls, mem, ret>>

\* stream.c:375-381, 391-393: KDB_O_HIER and no common parent
KsToStreamNoParent ==
    /\ op = "ksToStream" /\ pc = "hier"
    /\ KDB_O_HIER \in options
    /\ LET cp == ksGetCommonParentName(cks)
       IN  /\ cp = <<>>
           /\ commonParent' = cp
    /\ LET s == Fprintf(Cur, FmtGtNl)
       IN  stream' = s.out /\ written' = s.written
    /\ it' = 0
    /\ log' = Append(log, Event("root", 0))
    /\ pc' = "loopHier"
    /\ UNCHANGED <<op, ks, options, arg, cks, calls, mem, ret>>

\* stream.c:402-404: no KDB_O_HIER
KsToStreamFlat ==
    /\ op = "ksToStream" /\ pc = "hier"
    /\ KDB_O_HIER \notin options
    /\ LET s == Fprintf(Cur, FmtGtNl)
       IN  stream' = s.out /\ written' = s.written
    /\ it' = 0
    /\ log' = Append(log, Event("root", 0))
    /\ pc' = "loopFlat"
    /\ UNCHANGED <<op, ks, options, arg, cks, commonParent, calls, mem, ret>>

\* the loop stepping over every second key
AfterKeyCallSkipping(r) ==
    /\ stream' = stream \o r.out
    /\ written' = written + r.written
    /\ calls' = Append(calls, [at |-> it, out |-> r.out, ret |-> r.written])
    /\ mem' = r.mem
    /\ log' = Append(log, Event("key", it))
    /\ it' = it + 2

\* one turn of a loop, stream.c:387-388, 397-398, 408-409: the per-key call
\* appends to the stream, its return value is added to 'written', ++it
AfterKeyCall(r) ==
    /\ stream' = stream \o r.out
    /\ written' = written + r.written
    /\ calls' = Append(calls, [at |-> it, out |-> r.out, ret |-> r.written])
    /\ mem' = r.mem
    /\ log' = Append(log, Event("key", it))
    /\ it' = it + 1

\* stream.c:385-389
KsToStreamLoopBasename ==
    /\ op = "ksToStream" /\ pc = "loopBasename"
    /\ it < ksGetSize(cks)
    /\ \E kpad \in KeyPads, ppad \in ParentPads :
           AfterKeyCall(keyToStreamBasename(ksAtCursor(cks, it), commonParent, 0,
                                            options, kpad, ppad))
    /\ UNCHANGED <<op, pc, ks, options, arg, cks, commonParent, ret>>

\* stream.c:395-399
KsToStreamLoopHier ==
    /\ op = "ksToStream" /\ pc = "loopHier"
    /\ it < ksGetSize(cks)
    /\ AfterKeyCall(keyToStream(ksAtCursor(cks, it), options))
    /\ UNCHANGED <<op, pc, ks, options, arg, cks, commonParent, ret>>

\* stream.c:406-410
KsToStreamLoopFlat ==
    /\ op = "ksToStream" /\ pc = "loopFlat"
    /\ it < ksGetSize(cks)
    /\ AfterKeyCall(keyToStream(ksAtCursor(cks, it), options))
    /\ UNCHANGED <<op, pc, ks, options, arg, cks, commonParent, ret>>

\* stream.c:413, reached when one of the three loops ends
KsToStreamClose ==
    /\ op = "ksToStream" /\ pc \in {"loopBasename", "loopHier", "loopFlat"}
    /\ ~(it < ksGetSize(cks))
    /\ LET s == Fprintf(Cur, FmtKeysetClose)
       IN  stream' = s.out /\ written' = s.written
    /\ log' = Append(log, Event("close", 0))
    /\ pc' = "del"
    /\ UNCHANGED <<op, ks, options, arg, cks, it, commonParent, calls, mem, ret>>

\* stream.c:414
KsToStreamDel ==
    /\ op = "ksToStream" /\ pc = "del"
    /\ cks' = NULL
    /\ log' = Append(log, Event("ksDel", 0))
    /\ pc' = "return"
    /\ UNCHANGED <<op, ks, options, arg, stream, written, it, commonParent, calls,
                   mem, ret>>

\* stream.c:415
KsToStreamReturn ==
    /\ op = "ksToStream" /\ pc = "return"
    /\ ret' = written
    /\ pc' = "done"
    /\ UNCHANGED <<op, ks, options, arg, cks, stream, written, it, commonParent,
                   calls, log, mem>>

-----------------------------------------------------------------------------
(* keyOutput and ksOutput, stream.c:433-548 *)

\* the output of a debug writer so far; ret is set once it has returned
Put(o, text) == [o EXCEPT !.out = @ \o text]

\* stream.c:437-447; fails holds the allocations that fail
OutputName(o, k, fails) ==
    LET n == keyGetNameSize(k)
    IN  IF n > 1
        THEN IF "nam" \in fails
             THEN [o EXCEPT !.ret = -1]
             ELSE Put(o, FmtNameOpen \o Dec(n) \o FmtSizeClose \o keyGetName(k)
                         \o FmtFieldEnd)
        ELSE o

\* stream.c:449-473; a binary value is printed with %s, which reads on to the
\* first zero byte, in the buffer or behind it (pad)
OutputValue(o, k, opts, fails, pad) ==
    LET s == keyGetValueSize(k)
    IN  IF KEY_VALUE \in opts /\ s > 1
        THEN IF "str" \in fails
             THEN [o EXCEPT !.ret = -1]
             ELSE IF keyIsBinary(k)
                  THEN Put(o, FmtBinaryOpen \o Dec(s) \o FmtSizeClose
                              \o CString(k.data \o pad, 0) \o FmtFieldEnd)
                  ELSE Put(o, FmtStringOpen \o Dec(s) \o FmtSizeClose
                              \o CString(k.data, 0) \o FmtFieldEnd)
        ELSE o

\* stream.c:475-485
OutputComment(o, k, opts, fails) ==
    LET c == keyGetCommentSize(k)
    IN  IF KEY_META \in opts /\ c > 1
        THEN IF "com" \in fails
             THEN [o EXCEPT !.ret = -1]
             ELSE Put(o, FmtCommentLineOpen \o Dec(c) \o FmtSizeClose
                         \o keyComment(k) \o FmtFieldEnd)
        ELSE o

\* stream.c:488-500
OutputFlags(o, k, opts) ==
    LET o1 == IF KDB_O_SHOWMETA \in opts THEN Put(o, FmtFieldEnd) ELSE o
        o2 == IF KDB_O_SHOWFLAGS \in opts
              THEN LET f0 == IF KDB_O_SHOWMETA \notin opts
                             THEN Put(o1, FmtSpace)
                             ELSE o1
                       f1 == Put(f0, FmtFlags)
                       f2 == IF keyIsBinary(k) THEN Put(f1, FmtFlagB) ELSE f1
                       f3 == IF keyIsString(k) THEN Put(f2, FmtFlagS) ELSE f2
                   IN  IF keyNeedSync(k) THEN Put(f3, FmtFlagS) ELSE f3
              ELSE o1
    IN  [Put(o2, FmtNl) EXCEPT !.ret = 1]

\* the whole function: out is what it writes, ret what it returns (0 stands
\* for "not returned yet" between the parts)
keyOutput(k, opts, fails, pad) ==
    LET o0 == [out |-> <<>>, ret |-> 0]
        o1 == OutputName(o0, k, fails)
        o2 == IF o1.ret = 0 THEN OutputValue(o1, k, opts, fails, pad) ELSE o1
        o3 == IF o2.ret = 0 THEN OutputComment(o2, k, opts, fails) ELSE o2
    IN  IF o3.ret = 0 THEN OutputFlags(o3, k, opts) ELSE o3

Allocations == {"nam", "str", "com"}

\* stream.c:529-531
KsOutputDup ==
    /\ op = "ksOutput" /\ pc = "call"
    /\ cks' = ksDup(ks)
    /\ it' = 0
    /\ log' = Append(log, Event("ksDup", 0))
    /\ pc' = "header"
    /\ UNCHANGED <<op, ks, options, arg, stream, written, commonParent, calls, mem,
                   ret>>

\* stream.c:533-536
KsOutputHeader ==
    /\ op = "ksOutput" /\ pc = "header"
    /\ stream' = IF KDB_O_HEADER \in options
                 THEN stream \o FmtOutputHeader \o Dec(ksGetSize(cks)) \o FmtNl
                 ELSE stream
    /\ pc' = "loop"
    /\ UNCHANGED <<op, ks, options, arg, cks, written, it, commonParent, calls, log,
                   mem, ret>>

\* stream.c:538-544: one turn of the loop; what keyOutput returns is dropped
KsOutputLoop ==
    /\ op = "ksOutput" /\ pc = "loop"
    /\ it < ksGetSize(cks)
    /\ \E fails \in SUBSET Allocations, pad \in KeyPads :
           LET idx == IF KDB_O_SHOWINDICES \in options
                      THEN FmtIndexOpen \o Dec(it) \o FmtIndexClose
                      ELSE <<>>
               r == keyOutput(ksAtCursor(cks, it), options, fails, pad)
           IN  /\ stream' = stream \o idx \o r.out
               /\ calls' = Append(calls, [at |-> it, out |-> r.out, ret |-> r.ret])
    /\ log' = Append(log, Event("key", it))
    /\ it' = it + 1
    /\ UNCHANGED <<op, pc, ks, options, arg, cks, written, commonParent, mem, ret>>

\* stream.c:546-547
KsOutputReturn ==
    /\ op = "ksOutput" /\ pc = "loop"
    /\ ~(it < ksGetSize(cks))
    /\ cks' = NULL
    /\ log' = Append(log, Event("ksDel", 0))
    /\ ret' = 1
    /\ pc' = "done"
    /\ UNCHANGED <<op, ks, options, arg, stream, written, it, commonParent, calls,
                   mem>>

\* a call of keyOutput on one key
KeyOutputCall ==
    /\ op = "keyOutput" /\ pc = "call"
    /\ \E fails \in SUBSET Allocations, pad \in KeyPads :
           LET r == keyOutput(arg.key, options, fails, pad)
           IN  /\ stream' = stream \o r.out
               /\ calls' = Append(calls, [at |-> 0, out |-> r.out, ret |-> r.ret])
               /\ ret' = r.ret
    /\ pc' = "done"
    /\ UNCHANGED <<op, ks, options, arg, cks, written, it, commonParent, log, mem>>

-----------------------------------------------------------------------------
(* Calls of the single-key XML writers *)

\* stream.c:96-99
KeyToStreamCall ==
    /\ op = "keyToStream" /\ pc = "call"
    /\ LET r == keyToStream(arg.key, options)
       IN  /\ stream' = stream \o r.out
           /\ ret' = r.written
           /\ mem' = r.mem
    /\ pc' = "done"
    /\ UNCHANGED <<op, ks, options, arg, cks, written, it, commonParent, calls, log>>

\* stream.c:150-286
KeyToStreamBasenameCall ==
    /\ op = "keyToStreamBasename" /\ pc = "call"
    /\ \E kpad \in KeyPads, ppad \in ParentPads :
           LET r == keyToStreamBasename(arg.key, arg.parent, arg.parentSize,
                                        options, kpad, ppad)
           IN  /\ stream' = stream \o r.out
               /\ ret' = r.written
               /\ mem' = r.mem
    /\ pc' = "done"
    /\ UNCHANGED <<op, ks, options, arg, cks, written, it, commonParent, calls, log>>

-----------------------------------------------------------------------------
(* The inputs *)

\* value lengths around the cut size
StrLens == {0, 1, AttrCutSize - 1, AttrCutSize, AttrCutSize + 1}

Comments == {NULL, <<"c">>}

\* the values of the single-key calls
KeyValues ==
    {NoValue} \cup {StringValue(Rep("v", n)) : n \in StrLens}
    \cup {StringValue(<<"v", "\n">>), BinaryValue(<<"v", "v">>),
          BinaryValue(Rep("v", AttrCutSize + 1))}

KeyNames == {<<"a">>, <<"a", "b">>, <<"a", "/", "b">>, <<"b">>}

Parents == {NULL, <<>>, <<"a">>, <<"a", "/">>, <<"a", "/", "b">>}

\* the names of the keys of a keyset, in the order a keyset keeps them
KsNames == <<(<<"a">>), <<"a", "/", "a">>, <<"a", "/", "b">>, (<<"b">>)>>

Shape(value, comment) == [value |-> value, comment |-> comment]

ShortString == StringValue(<<"v">>)

LongString == StringValue(Rep("v", AttrCutSize))

Binary == BinaryValue(<<"v", "v">>)

\* the values and comments the key of each name of KsNames takes; every
\* combination of no value, short string, long string, binary with comment
\* or none occurs
KsShapes ==
    <<{Shape(NoValue, NULL), Shape(ShortString, <<"c">>), Shape(LongString, NULL)},
      {Shape(ShortString, NULL), Shape(LongString, <<"c">>), Shape(Binary, NULL)},
      {Shape(NoValue, <<"c">>), Shape(Binary, <<"c">>), Shape(ShortString, NULL)},
      {Shape(LongString, NULL), Shape(NoValue, NULL), Shape(ShortString, <<"c">>)}>>

\* the names of the keys given to the debug writers
OutNames == <<(<<>>), (<<"a">>)>>

OutShapes ==
    <<{Shape(v, c) : v \in {NoValue, ShortString, Binary}, c \in Comments},
      {Shape(v, c) : v \in {NoValue, ShortString, Binary}, c \in Comments}>>

\* the keysets of at most MaxKeys keys with names of names and shapes of
\* shapes: sorted by name, no name twice
KeySets(names, shapes) ==
    UNION {{q \in [1 .. n -> [at : 1 .. Len(names),
                              shape : UNION {shapes[i] : i \in 1 .. Len(names)}]] :
               /\ \A i \in 1 .. n : q[i].shape \in shapes[q[i].at]
               /\ \A i \in 1 .. n - 1 : q[i].at < q[i + 1].at} : n \in 0 .. MaxKeys}

\* the keyset a choice of KeySets stands for
AsKeys(names, q) ==
    [i \in 1 .. Len(q) |->
        Key(names[q[i].at], q[i].shape.value, q[i].shape.comment, FALSE)]

NoArg == [key |-> Key(<<>>, NoValue, NULL, FALSE), parent |-> NULL, parentSize |-> 0]

XmlOptions ==
    {KDB_O_HEADER, KDB_O_HIER, KDB_O_CONDENSED, KDB_O_FULLNAME, KDB_O_XMLHEADERS}

KeyOptions == {KDB_O_CONDENSED, KDB_O_FULLNAME}

OutputOptions ==
    {KDB_O_HEADER, KDB_O_SHOWINDICES, KDB_O_SHOWMETA, KDB_O_SHOWFLAGS, KEY_VALUE,
     KEY_META}

\* what every call starts from: nothing written, nothing logged
Fresh ==
    /\ pc = "call"
    /\ cks = NULL
    /\ stream = <<>>
    /\ written = 0
    /\ it = 0
    /\ commonParent = <<>>
    /\ calls = <<>>
    /\ log = <<>>
    /\ mem = NoMem
    /\ ret = 0

-----------------------------------------------------------------------------
(* ksToStream on every keyset and every option set *)

Init ==
    /\ op = "ksToStream"
    /\ \E q \in KeySets(KsNames, KsShapes) : ks = AsKeys(KsNames, q)
    /\ options \in SUBSET XmlOptions
    /\ arg = NoArg
    /\ Fresh

Next ==
    \/ KsToStreamDup
    \/ KsToStreamHeader
    \/ KsToStreamParent
    \/ KsToStreamNoParent
    \/ KsToStreamFlat
    \/ KsToStreamLoopBasename
    \/ KsToStreamLoopHier
    \/ KsToStreamLoopFlat
    \/ KsToStreamClose
    \/ KsToStreamDel
    \/ KsToStreamReturn

Spec == Init /\ [][Next]_vars

(* keyToStream and keyToStreamBasename on every key, parent and parentSize *)

InitKey ==
    /\ op \in {"keyToStream", "keyToStreamBasename"}
    /\ ks = <<>>
    /\ options \in SUBSET KeyOptions
    /\ \E name \in KeyNames, value \in KeyValues, comment \in Comments,
          parent \in Parents, parentSize \in 0 .. MaxParentSize :
           /\ op = "keyToStream" => parent = NULL /\ parentSize = 0
           /\ arg = [key |-> Key(name, value, comment, FALSE), parent |-> parent,
                     parentSize |-> parentSize]
    /\ Fresh

NextKey ==
    \/ KeyToStreamCall
    \/ KeyToStreamBasenameCall

SpecKey == InitKey /\ [][NextKey]_vars

(* keyOutput and ksOutput, with allocations that may fail *)

InitOutput ==
    /\ op \in {"keyOutput", "ksOutput"}
    /\ options \in SUBSET OutputOptions
    /\ \E q \in KeySets(OutNames, OutShapes) :
           /\ op = "keyOutput" => Len(q) = 1
           /\ ks = AsKeys(OutNames, q)
           /\ arg = IF op = "keyOutput"
                    THEN [NoArg EXCEPT !.key = AsKeys(OutNames, q)[1]]
                    ELSE NoArg
    /\ Fresh

NextOutput ==
    \/ KeyOutputCall
    \/ KsOutputDup
    \/ KsOutputHeader
    \/ KsOutputLoop
    \/ KsOutputReturn

SpecOutput == InitOutput /\ [][NextOutput]_vars

-----------------------------------------------------------------------------
(* Reading the stream *)

StartsWith(s, p) == Len(p) <= Len(s) /\ SubSeq(s, 1, Len(p)) = p

Contains(s, p) ==
    \E i \in 1 .. (Len(s) - Len(p) + 1) : SubSeq(s, i, i + Len(p) - 1) = p

Done == pc = "done"

\* the string of a string value: its data without the terminator
ValueString(key) == SubSeq(key.data, 1, key.dataSize - 1)

HasStringValue(key) == key.data # NULL /\ keyIsString(key)

\* the value is written as the attribute value="..." and not as a node
RenderedAsAttribute(key) ==
    /\ Contains(stream, FmtValueAttrOpen \o ValueString(key) \o FmtQuote)
    /\ ~Contains(stream, FmtValueOpen)

\* the value is written as the node <value><![CDATA[...]]></value> and not
\* as an attribute
RenderedAsNode(key) ==
    /\ Contains(stream, FmtValueOpen \o FmtCdataOpen \o ValueString(key)
                        \o FmtCdataClose \o FmtValueClose)
    /\ ~Contains(stream, FmtValueAttrOpen)

\* name without its first n bytes and without the separators that follow
RECURSIVE DropSeparators(_)
DropSeparators(s) ==
    IF s # <<>> /\ Head(s) = KDB_PATH_SEPARATOR THEN DropSeparators(Tail(s)) ELSE s

Remainder(name, n) == DropSeparators(SubSeq(name, n + 1, Len(name)))

\* the start of the element of a key whose name is compared with the first
\* n bytes of prefix: the basename form when they are the start of the name
\* and something remains behind them, the name form otherwise
ExpectedOpening(name, prefix, n) ==
    IF /\ n <= Len(prefix)
       /\ n <= Len(name)
       /\ SubSeq(prefix, 1, n) = SubSeq(name, 1, n)
       /\ Remainder(name, n) # <<>>
    THEN FmtKeyBasenameOpen \o Remainder(name, n) \o FmtQuote
    ELSE FmtKeyNameOpen \o name \o FmtQuote

-----------------------------------------------------------------------------
(* C1: the form of a string value *)

\* C1 as stated: a string value is written as a value="..." attribute if and
\* only if its length without the terminator is at most 16 and it holds no
\* newline, and as a <value><![CDATA[...]]></value> node otherwise.
C1_AsStated ==
    (Done /\ HasStringValue(arg.key)) =>
        IF Len(ValueString(arg.key)) <= AttrCutSize /\ ~strchr(arg.key.data, "\n")
        THEN RenderedAsAttribute(arg.key)
        ELSE RenderedAsNode(arg.key)

\* C1 amended: a string value is written as a value="..." attribute if and
\* only if its stored size, terminator included, is at most 16 (its length is
\* at most 15) and it holds no newline; otherwise it is written as a
\* <value><![CDATA[...]]></value> node whose payload is the value without its
\* terminator.
C1_AttributeIffSizeAtMostCut ==
    (Done /\ HasStringValue(arg.key)) =>
        IF Len(ValueString(arg.key)) <= AttrCutSize - 1 /\ ~strchr(arg.key.data, "\n")
        THEN RenderedAsAttribute(arg.key)
        ELSE RenderedAsNode(arg.key)

\* a string of exactly 16 characters has been written as a node
C1_Witness ==
    /\ Done
    /\ HasStringValue(arg.key)
    /\ Len(ValueString(arg.key)) = AttrCutSize
    /\ RenderedAsNode(arg.key)

-----------------------------------------------------------------------------
(* C2: condensed output *)

Whitespace == {"\n", "\t", " "}

\* the key's name, value and comment hold no whitespace
NoWhitespaceIn(key) ==
    /\ \A i \in 1 .. Len(key.key) : key.key[i] \notin Whitespace
    /\ key.data # NULL => \A i \in 1 .. Len(key.data) : key.data[i] \notin Whitespace
    /\ key.comment # NULL =>
           \A i \in 1 .. Len(key.comment) : key.comment[i] \notin Whitespace

\* C2: with KDB_O_CONDENSED the writer adds no newline, tab or run of spaces
\* of its own: the element of a key whose name, value and comment hold no
\* whitespace holds no newline, no tab and no two spaces in a row.
C2_CondensedHasNoCosmeticWhitespace ==
    (Done /\ KDB_O_CONDENSED \in options /\ NoWhitespaceIn(arg.key)) =>
        /\ \A i \in 1 .. Len(stream) : stream[i] \notin {"\n", "\t"}
        /\ \A i \in 1 .. Len(stream) - 1 : ~(stream[i] = " " /\ stream[i + 1] = " ")

-----------------------------------------------------------------------------
(* C3: KDB_O_XMLHEADERS *)

\* C3: with KDB_O_HEADER and KDB_O_XMLHEADERS both set, ksToStream writes no
\* prolog and no schema attributes: the output starts with <keyset followed
\* by > or by the parent attribute.
C3_XmlHeadersSuppressesProlog ==
    (Done /\ KDB_O_HEADER \in options /\ KDB_O_XMLHEADERS \in options) =>
        /\ ~Contains(stream, FmtXmlDeclOpen)
        /\ \/ StartsWith(stream, FmtKeysetOpen \o FmtGtNl)
           \/ StartsWith(stream, FmtKeysetOpen \o FmtParentOpen)

-----------------------------------------------------------------------------
(* C4: the hierarchical layout *)

HierWithParent == Done /\ KDB_O_HIER \in options /\ commonParent # <<>>

ParentAttributeWritten ==
    Contains(stream, FmtParentOpen \o commonParent \o FmtParentClose)

\* C4 as stated: with KDB_O_HIER and a common parent, the parent is the
\* root's parent attribute and every key of the keyset, the common parent
\* key included, is written as <key basename=...>, none with a name attribute.
C4_AsStated ==
    HierWithParent =>
        /\ ParentAttributeWritten
        /\ Len(calls) = Len(ks)
        /\ \A i \in 1 .. Len(calls) :
               /\ StartsWith(calls[i].out, FmtKeyBasenameOpen)
               /\ ~Contains(calls[i].out, FmtKeyNameOpen)

\* C4 amended: with KDB_O_HIER and a common parent, the parent is the root's
\* parent attribute; every key whose name goes on behind the common parent
\* is written as <key basename="..."> with what remains of its name behind
\* the parent and the separators, and a key whose name is the common parent
\* is written as <key name="..."> with its full name.
C4_BasenameExceptParentKey ==
    HierWithParent =>
        /\ ParentAttributeWritten
        /\ Len(calls) = Len(ks)
        /\ \A i \in 1 .. Len(calls) :
               /\ StartsWith(calls[i].out,
                             ExpectedOpening(ks[i].key, commonParent, Len(commonParent)))
               /\ ks[i].key # commonParent =>
                      /\ StartsWith(calls[i].out, FmtKeyBasenameOpen)
                      /\ ~Contains(calls[i].out, FmtKeyNameOpen)
               /\ ks[i].key = commonParent =>
                      StartsWith(calls[i].out, FmtKeyNameOpen \o ks[i].key \o FmtQuote)

\* a keyset that holds its common parent key and a key below it was written
C4_Witness ==
    /\ HierWithParent
    /\ Len(ks) = 2
    /\ ks[1].key = commonParent
    /\ ks[2].key # commonParent
    /\ StartsWith(calls[1].out, FmtKeyNameOpen)
    /\ StartsWith(calls[2].out, FmtKeyBasenameOpen)

-----------------------------------------------------------------------------
(* C5: basename or name *)

\* the number of bytes of parent that are compared
ComparedBytes ==
    IF arg.parentSize # 0 THEN arg.parentSize ELSE Len(arg.parent)

\* C5: with a parent given, the element starts with <key basename="suffix"
\* when the compared bytes of parent are the start of the key's name and a
\* non-empty suffix remains behind them and the separators, and with
\* <key name="full name" otherwise; exactly one of the two attributes is
\* written and a basename is never empty.
C5_BasenameOrName ==
    (Done /\ op = "keyToStreamBasename" /\ arg.parent # NULL) =>
        /\ StartsWith(stream, ExpectedOpening(arg.key.key, arg.parent, ComparedBytes))
        /\ Contains(stream, FmtKeyBasenameOpen) # Contains(stream, FmtKeyNameOpen)
        /\ ~Contains(stream, FmtKeyBasenameOpen \o FmtQuote)

-----------------------------------------------------------------------------
(* C6: the tag structure *)

\* the kind of the tag whose text between < and > is b
TagKind(b) ==
    IF StartsWith(b, <<"?", "x", "m", "l">>) THEN "decl"
    ELSE IF StartsWith(b, <<"!", "-", "-">>) THEN "note"
    ELSE IF StartsWith(b, <<"!", "[", "C", "D", "A", "T", "A", "[">>) THEN "cdata"
    ELSE IF b = <<"k", "e", "y", "s", "e", "t">>
            \/ StartsWith(b, <<"k", "e", "y", "s", "e", "t", " ">>) THEN "keyset"
    ELSE IF b = <<"/", "k", "e", "y", "s", "e", "t">> THEN "/keyset"
    ELSE IF StartsWith(b, <<"k", "e", "y", " ">>)
         THEN IF b[Len(b)] = "/" THEN "key/" ELSE "key"
    ELSE IF b = <<"/", "k", "e", "y">> THEN "/key"
    ELSE IF b = <<"v", "a", "l", "u", "e">> THEN "value"
    ELSE IF b = <<"/", "v", "a", "l", "u", "e">> THEN "/value"
    ELSE IF b = <<"c", "o", "m", "m", "e", "n", "t">> THEN "comment"
    ELSE IF b = <<"/", "c", "o", "m", "m", "e", "n", "t">> THEN "/comment"
    ELSE "bad"

\* the first position from i on that holds no whitespace, Len(s) + 1 if none
RECURSIVE SkipWhitespace(_, _)
SkipWhitespace(s, i) ==
    IF i <= Len(s) /\ s[i] \in Whitespace THEN SkipWhitespace(s, i + 1) ELSE i

\* the first position from i on that holds < or >, Len(s) + 1 if none
NextBracket(s, i) ==
    LET brackets == {j \in i .. Len(s) : s[j] \in {"<", ">"}}
    IN  IF brackets = {} THEN Len(s) + 1
        ELSE CHOOSE j \in brackets : \A k \in brackets : j <= k

\* the kinds of the tags of s from position i on, in order, i lying between
\* tags.  Text other than whitespace between tags, a < inside a tag and a
\* tag that never ends all give the kind "bad"
RECURSIVE TagKinds(_, _)
TagKinds(s, i) ==
    LET open == SkipWhitespace(s, i)
        close == NextBracket(s, open + 1)
    IN  IF open > Len(s) THEN <<>>
        ELSE IF s[open] # "<" \/ close > Len(s) \/ s[close] # ">" THEN <<"bad">>
        ELSE <<TagKind(SubSeq(s, open + 1, close - 1))>> \o TagKinds(s, close + 1)

\* where the reader of a document stands after a tag of kind k, having
\* stood at p: one root element, in it key elements that are closed at once
\* or hold an optional value node and an optional comment node and end with
\* /key; every other tag leads to "bad"
AfterTag(p, k) ==
    LET moves == {<<"start", "decl", "prolog">>, <<"prolog", "note", "prolog">>,
                  <<"start", "keyset", "root">>, <<"prolog", "keyset", "root">>,
                  <<"root", "key/", "root">>, <<"root", "key", "key">>,
                  <<"root", "/keyset", "end">>,
                  <<"key", "value", "value">>, <<"value", "cdata", "valueData">>,
                  <<"value", "/value", "valueEnd">>,
                  <<"valueData", "/value", "valueEnd">>,
                  <<"key", "comment", "comment">>,
                  <<"valueEnd", "comment", "comment">>,
                  <<"comment", "cdata", "commentData">>,
                  <<"commentData", "/comment", "commentEnd">>,
                  <<"key", "/key", "root">>, <<"valueEnd", "/key", "root">>,
                  <<"commentEnd", "/key", "root">>}
        to == {m \in moves : m[1] = p /\ m[2] = k}
    IN  IF to = {} THEN "bad" ELSE (CHOOSE m \in to : TRUE)[3]

RECURSIVE ReadTags(_, _, _)
ReadTags(kinds, i, p) ==
    IF i > Len(kinds) THEN p ELSE ReadTags(kinds, i + 1, AfterTag(p, kinds[i]))

WellFormed(s) == ReadTags(TagKinds(s, 1), 1, "start") = "end"

\* the number of key elements of s
KeyElements(s) ==
    LET kinds == TagKinds(s, 1)
    IN  Cardinality({i \in 1 .. Len(kinds) : kinds[i] \in {"key", "key/"}})

\* C6: for every keyset and every option set, ksToStream writes one root
\* <keyset ...> element that holds one key element per key, each closed at
\* once or closed by one </key> with its value and comment nodes opened and
\* closed inside it, and ends with one </keyset>; for the empty keyset with
\* KDB_O_HIER set and KDB_O_HEADER unset the output is <keyset>\n</keyset>\n.
C6_WellFormedDocument ==
    Done =>
        /\ WellFormed(stream)
        /\ KeyElements(stream) = Len(ks)
        /\ (ks = <<>> /\ KDB_O_HIER \in options /\ KDB_O_HEADER \notin options) =>
               stream = FmtKeysetOpen \o FmtGtNl \o FmtKeysetClose

\* a document with the header, a key with a value node and a comment, and a
\* key closed at once has been written
C6_Witness ==
    /\ Done
    /\ KDB_O_HEADER \in options
    /\ Len(ks) = 2
    /\ \E i \in 1 .. 2 : Contains(calls[i].out, FmtValueClose)
                         /\ Contains(calls[i].out, FmtCommentClose)
    /\ \E i \in 1 .. 2 : Contains(calls[i].out, FmtSelfClose)
    /\ WellFormed(stream)

-----------------------------------------------------------------------------
(* C7: allocation failures of the debug writers *)

\* C7: when keyOutput returns -1 for a key of the keyset that ksOutput
\* dumps, because an allocation failed, ksOutput returns -1 too, never 1.
C7_AllocationFailureIsReported ==
    (Done /\ op = "ksOutput" /\ \E i \in 1 .. Len(calls) : calls[i].ret = -1) =>
        ret = -1

-----------------------------------------------------------------------------
(* C8: the returned byte counts *)

\* C8: every per-key call returns the number of bytes it appended to the
\* stream, and ksToStream returns the number of bytes the whole call
\* appended: its own framing plus what the per-key calls returned.
C8_ReturnsBytesWritten ==
    /\ \A i \in 1 .. Len(calls) : calls[i].ret = Len(calls[i].out)
    /\ written = Len(stream)
    /\ Done => ret = Len(stream)

\* a call with the header, the parent attribute and two keys has returned
C8_Witness ==
    /\ Done
    /\ {KDB_O_HEADER, KDB_O_HIER} \subseteq options
    /\ commonParent # <<>>
    /\ Len(calls) = 2
    /\ ret = Len(stream)
    /\ ret > calls[1].ret + calls[2].ret

-----------------------------------------------------------------------------
(* C9: the order of the events of ksToStream *)

\* the events of a whole call on a keyset of n keys
RECURSIVE KeyEvents(_, _)
KeyEvents(i, n) == IF i >= n THEN <<>> ELSE <<Event("key", i)>> \o KeyEvents(i + 1, n)

ExpectedLog(n) ==
    <<Event("ksDup", 0), Event("root", 0)>> \o KeyEvents(0, n)
    \o <<Event("close", 0), Event("ksDel", 0)>>

\* the prefix with which key i of the loop that runs is compared: the common
\* parent in the basename loop, none in the other loops
LoopOpening(name) ==
    IF KDB_O_HIER \in options /\ commonParent # <<>>
    THEN ExpectedOpening(name, commonParent, Len(commonParent))
    ELSE FmtKeyNameOpen \o name \o FmtQuote

\* C9, the state part: the events so far are the start of: snapshot, root
\* opening, one key element per key of the snapshot in order, root closing,
\* release; the snapshot is the keyset from ksDup to ksDel; the element
\* written at step i is the element of key i; all events have happened when
\* the call has returned.
C9_EventsInOrder ==
    /\ StartsWith(ExpectedLog(Len(ks)), log)
    /\ (log # <<>> /\ log[Len(log)].ev # "ksDel") => cks = ks
    /\ (log # <<>> /\ log[Len(log)].ev = "ksDel") => cks = NULL
    /\ \A i \in 1 .. Len(calls) :
           /\ calls[i].at = i - 1
           /\ StartsWith(calls[i].out, LoopOpening(ks[i].key))
    /\ Done => log = ExpectedLog(Len(ks))

\* C9: in every run of ksToStream the snapshot is taken once, the root
\* opening is written, one key element is written per key of the snapshot
\* in snapshot order, the root closing is written and the snapshot is
\* released once before the call returns; the keyset given is never changed.
C9_SnapshotOrder == [](C9_EventsInOrder) /\ [][ks' = ks]_vars

\* a call on two keys has returned with its snapshot released
C9_Witness ==
    /\ Done
    /\ Len(ks) = 2
    /\ cks = NULL
    /\ log = ExpectedLog(2)

-----------------------------------------------------------------------------
(* C10: the bytes that the prefix comparison reads *)

\* C10: the comparison with parent and the skipping of separators read the
\* key's name and parent only up to their terminators (offset Len of each),
\* and skip, where it is used as an index into the key's name, never goes
\* past the end of the name.
C10_ReadsStayInsideStrings ==
    (Done /\ op = "keyToStreamBasename" /\ arg.parent # NULL) =>
        /\ mem.keyRead <= Len(arg.key.key)
        /\ mem.parentRead <= Len(arg.parent)
        /\ mem.matched => mem.skip <= Len(arg.key.key)

====
